---- MODULE Spec2Model ----
(***************************************************************************)
(* A model of the Goodreads challenge scrapers and the season compiler:     *)
(*   scripts/grchallenges_scraper_prev.py  (v2: cards, enrichment, dedupe)  *)
(*   scripts/grchallenges_scraper.py       (v1: id lists, per-file output)  *)
(*   scripts/grchallenges_compile.py       (season compiler)                *)
(*                                                                          *)
(* Text is a sequence of one-character strings, so that strip() and         *)
(* lower() are computed.  A reference (href) is its parsed components.      *)
(***************************************************************************)
EXTENDS Integers, Sequences, FiniteSets, TLC

VARIABLES
    html,       \* extraction: the page, its elements in document order
    fn,         \* extraction: the function applied to html ("none" before)
    ret,        \* extraction: what that function returned
    tried,      \* extraction: the strategies the call ran, in order
    web,        \* the detail pages of the site: book id -> what a fetch gives
    ebooks0,    \* enrich_books: the record list as passed in
    eargs,      \* enrich_books: [cap, respect_delay_ms]
    ebooks,     \* enrich_books: the record list after the call
    eret,       \* enrich_books: [filled, count, log] of the call, or NoCall
    cfg,        \* scraper_prev.py scrape(): the config and the flags
    run,        \* scraper_prev.py scrape(): the loop's state and the artifact
    sources,    \* scraper.py main(): the selected achievements and the flags
    mrun,       \* scraper.py main(): the loop's state and the files written
    achs,       \* dedupe: a collection of achievement results
    dd          \* dedupe: the duplicate maps / season file built from achs

vars == <<html, fn, ret, tried, web, ebooks0, eargs, ebooks, eret, cfg, run, sources, mrun, achs, dd>>

extractVars == <<html, fn, ret, tried>>
enrichVars  == <<ebooks0, eargs, ebooks, eret>>
scrapeVars  == <<cfg, run>>
mainVars    == <<sources, mrun>>
dedupeVars  == <<achs, dd>>

-----------------------------------------------------------------------------
(* Bounds of the model *)

\* longest page (elements) drawn for the extraction functions
MaxCards == 3

\* longest record list passed to enrich_books
MaxBooks == 2

\* most book mentions in a collection of achievement results
MaxMentions == 3

\* most achievements in a run of either scraper
MaxAch == 2

\* largest cap passed to enrich_books
MaxCap == 2

-----------------------------------------------------------------------------
(* Text *)

Empty == <<>>

T(c) == <<c>>

SeqsUpTo(S, n) == UNION {[1..k -> S] : k \in 0..n}

\* str.lower() on one character
LowerChar(c) == CASE c = "A" -> "a" [] c = "B" -> "b" [] OTHER -> c

\* str.lower()
Lower(s) == [i \in 1..Len(s) |-> LowerChar(s[i])]

RECURSIVE LStrip(_)
LStrip(s) == IF s # Empty /\ Head(s) = " " THEN LStrip(Tail(s)) ELSE s

RECURSIVE RStrip(_)
RStrip(s) == IF s # Empty /\ s[Len(s)] = " " THEN RStrip(SubSeq(s, 1, Len(s) - 1)) ELSE s

\* str.strip()
Strip(s) == RStrip(LStrip(s))

\* Python's `x or y` on strings
Or(x, y) == IF x # Empty THEN x ELSE y

\* the characters of the model's texts, in code point order
CodePoints == <<" ", "A", "B", "D", "F", "G", "a", "b", "d", "f", "|">>

\* the order Python compares characters by
Rank(c) == CHOOSE i \in 1..Len(CodePoints) : CodePoints[i] = c

RECURSIVE TextLeq(_, _)
TextLeq(s, t) ==
    IF s = Empty THEN TRUE
    ELSE IF t = Empty THEN FALSE
    ELSE IF Head(s) # Head(t) THEN Rank(Head(s)) < Rank(Head(t))
    ELSE TextLeq(Tail(s), Tail(t))

-----------------------------------------------------------------------------
(* References and the link canonicalizer *)

\* The page URL the references are resolved against (an achievement's url).
BaseUrl == [scheme |-> "https", host |-> "www.goodreads.com"]

\* A reference: scheme "" is a rooted relative one.  Its path is
\* [/en]/book/<form>/<id><tail>: id is the run of digits after the form
\* segment (text, Empty when there is none), tail what follows it (a slug,
\* a query string or a fragment).
Href(scheme, host, en, form, id, tail) ==
    [scheme |-> scheme, host |-> host, en |-> en, form |-> form, id |-> id, tail |-> tail]

Rel(form, id, tail) == Href("", "", FALSE, form, id, tail)

\* _abs: url if it starts with "http", else urljoin(base_url, url)
Abs(h, base) ==
    IF h.scheme \in {"http", "https"} THEN h
    ELSE [h EXCEPT !.scheme = base.scheme, !.host = base.host]

\* the form segment as (?:show|details) matches it
IsBookForm(form) == form \in {"show", "details"}

\* _normalize_book_link: scheme://netloc + path, the path cut to
\* /[en/]book/show/<id> when it matches, kept (less query and fragment) otherwise
NormalizeBookLink(h, base) ==
    LET full == Abs(h, base)
        slug == full.tail = "slug"
    IN  IF IsBookForm(full.form) /\ full.id # Empty
        THEN [scheme |-> full.scheme, host |-> full.host, en |-> full.en,
              form |-> "show", id |-> full.id, slug |-> FALSE]
        ELSE [scheme |-> full.scheme, host |-> full.host, en |-> full.en,
              form |-> full.form, id |-> full.id, slug |-> slug]

\* BOOK_SHOW_ABS_RE.match(link)
BOOK_SHOW_ABS_RE(link) ==
    /\ link.scheme \in {"http", "https"}
    /\ link.host \in {"www.goodreads.com", "goodreads.com"}
    /\ ~link.en
    /\ IsBookForm(link.form)
    /\ link.id # Empty

\* _book_id_from_href on a normalized link: BOOK_ID_RE.search
BookIdFromHref(link) ==
    IF IsBookForm(link.form) /\ link.id # Empty THEN link.id ELSE Empty

-----------------------------------------------------------------------------
(* Page elements *)

\* No anchor whose href contains "/book/" inside the element.
NoHref == Href("none", "", FALSE, "", Empty, "")

\* The element carries no data-resource-id attribute.
NoAttr == <<"<absent>">>

\* str.isdigit(): non-empty and every character a digit
IsDigit(s) == s # Empty /\ \A i \in 1..Len(s) : s[i] \in {"0", "1", "2", "3", "4", "5", "6", "7", "8", "9"}

\* IMG_COVER_RE.search(src): src is the path's segments
IMG_COVER_RE(src) ==
    \/ \E i \in 1..Len(src) : src[i] \in {"books", "covers"}
    \/ \E i \in 1..(Len(src) - 1) : src[i] = "assets" /\ src[i + 1] = "nocover"

\* One element of the page.  cls: which container selector it matches;
\* href: its first book anchor; alt, src: its img; atitle, atext: the anchor's
\* title attribute and text; em: its .bookTitle/em/i text; author: the text of
\* its author node; resid: its data-resource-id attribute.
Element(cls, href, alt, atitle, atext, em, author, src, resid) ==
    [cls |-> cls, href |-> href, alt |-> alt, atitle |-> atitle, atext |-> atext,
     em |-> em, author |-> author, src |-> src, resid |-> resid]

BookRecord(title, author, link, cover, gr_id) ==
    [title |-> title, author |-> author, link |-> link, cover |-> cover, gr_id |-> gr_id]

\* the author node's text, and the cover, as both card strategies read them
CardAuthor(c) == Strip(c.author)
CardCover(c) == IF c.src # Empty /\ IMG_COVER_RE(c.src) THEN c.src ELSE Empty

\* Title as _extract_tooltip_triggers resolves it: img alt, then the anchor's
\* title attribute or text.
TooltipTitle(c) ==
    LET t1 == IF c.alt # Empty THEN Strip(c.alt) ELSE Empty
    IN  IF t1 # Empty THEN t1 ELSE Strip(Or(c.atitle, Strip(c.atext)))

\* Title as _extract_generic_scoped resolves it: anchor title, .bookTitle/em/i
\* text, anchor text, then img alt.
GenericTitle(c) ==
    LET t1 == Strip(Or(c.atitle, Or(Strip(c.em), Strip(c.atext))))
    IN  IF t1 # Empty THEN t1
        ELSE IF c.alt # Empty THEN Strip(c.alt) ELSE Empty

\* The body of the card loop up to the insertion: the record the card gives,
\* as a sequence of one record, or <<>> when the card is skipped.
CardRecord(c, base, title) ==
    IF c.href = NoHref THEN <<>>
    ELSE LET link == NormalizeBookLink(c.href, base)
             gr_id == BookIdFromHref(link)
         IN  IF ~BOOK_SHOW_ABS_RE(link) THEN <<>>
             ELSE IF gr_id = Empty THEN <<>>
             ELSE IF title = Empty THEN <<>>
             ELSE <<BookRecord(title, CardAuthor(c), link, CardCover(c), gr_id)>>

TooltipCard(c, base) == CardRecord(c, base, TooltipTitle(c))
GenericCard(c, base) == CardRecord(c, base, GenericTitle(c))

\* Mutants of InsertFirst: the record appended whether or not its id is there;
\* a new id put first; a later card overwriting the stored fields.
InsertAlways(out, rec) == Append(out, rec)

InsertFront(out, rec) ==
    IF \E i \in 1..Len(out) : out[i].gr_id = rec.gr_id THEN out ELSE <<rec>> \o out

InsertOverwrite(out, rec) ==
    IF \E i \in 1..Len(out) : out[i].gr_id = rec.gr_id
    THEN [i \in 1..Len(out) |-> IF out[i].gr_id = rec.gr_id THEN rec ELSE out[i]]
    ELSE Append(out, rec)

\* `if gr_id not in out: out[gr_id] = {...}` on a dict, which keeps the
\* order of insertion: out is the dict's values in that order.
InsertFirst(out, rec) ==
    IF \E i \in 1..Len(out) : out[i].gr_id = rec.gr_id THEN out ELSE Append(out, rec)

RECURSIVE TooltipLoop(_, _, _)
TooltipLoop(cards, base, out) ==
    IF cards = <<>> THEN out
    ELSE LET r == TooltipCard(Head(cards), base)
         IN  TooltipLoop(Tail(cards), base, IF r = <<>> THEN out ELSE InsertFirst(out, r[1]))

RECURSIVE GenericLoop(_, _, _)
GenericLoop(cards, base, out) ==
    IF cards = <<>> THEN out
    ELSE LET r == GenericCard(Head(cards), base)
         IN  GenericLoop(Tail(cards), base, IF r = <<>> THEN out ELSE InsertFirst(out, r[1]))

IsTooltip(c) == c.cls = "tooltip"
IsGeneric(c) == c.cls = "generic"

\* scope.select(".js-tooltipTrigger.book") / the generic container selectors
TooltipCards(page) == SelectSeq(page, IsTooltip)
GenericCards(page) == SelectSeq(page, IsGeneric)

ExtractTooltipTriggers(page, base) == TooltipLoop(TooltipCards(page), base, <<>>)
ExtractGenericScoped(page, base) == GenericLoop(GenericCards(page), base, <<>>)

\* Mutant of Pass1: the generic strategy is run as well, whatever the card
\* strategy found, and its records are added.
Pass1Both(page, base) ==
    [out |-> ExtractTooltipTriggers(page, base) \o ExtractGenericScoped(page, base),
     tried |-> <<"_extract_tooltip_triggers", "_extract_generic_scoped">>]

\* scrape(), pass 1: the card strategy, the generic one when it finds nothing;
\* out is `books`, tried the functions called
Pass1(page, base) ==
    LET books == ExtractTooltipTriggers(page, base)
    IN  IF books = <<>>
        THEN [out |-> ExtractGenericScoped(page, base),
              tried |-> <<"_extract_tooltip_triggers", "_extract_generic_scoped">>]
        ELSE [out |-> books, tried |-> <<"_extract_tooltip_triggers">>]

ScrapePass1(page, base) == Pass1(page, base).out

-----------------------------------------------------------------------------
(* The id-list extractors of grchallenges_scraper.py *)

InSeq(x, s) == \E i \in 1..Len(s) : s[i] = x

RECURSIVE ResourceIdsLoop(_, _)
ResourceIdsLoop(nodes, out) ==
    IF nodes = <<>> THEN out
    ELSE LET bid == Head(nodes).resid
         IN  ResourceIdsLoop(Tail(nodes),
                 IF bid # Empty /\ IsDigit(bid) /\ ~InSeq(bid, out) THEN Append(out, bid) ELSE out)

HasResid(c) == c.resid # NoAttr

\* _resource_ids_in_dom_order: `seen` holds exactly the ids of `out`
ResourceIdsInDomOrder(article) == ResourceIdsLoop(SelectSeq(article, HasResid), <<>>)

\* href.startswith("/book/") and BOOK_HREF.match(href), on the stripped href
BOOK_HREF(h) == h.scheme = "" /\ ~h.en /\ IsBookForm(h.form) /\ h.id # Empty

RECURSIVE AnchorsLoop(_, _)
AnchorsLoop(anchors, out) ==
    IF anchors = <<>> THEN out
    ELSE LET h == Head(anchors).href
         IN  AnchorsLoop(Tail(anchors),
                 IF BOOK_HREF(h) /\ ~InSeq(h.id, out) THEN Append(out, h.id) ELSE out)

HasAnchor(c) == c.href # NoHref

\* _anchors_in_dom_order
AnchorsInDomOrder(article) == AnchorsLoop(SelectSeq(article, HasAnchor), <<>>)

\* the canonical link extract_book_links_from_blog formats for an id
ShowLink(bid) ==
    [scheme |-> "https", host |-> "www.goodreads.com", en |-> FALSE,
     form |-> "show", id |-> bid, slug |-> FALSE]

\* extract_book_links_from_blog, the two id strategies: out is `ids`, tried
\* the functions called
BlogIds(article) ==
    LET ids == ResourceIdsInDomOrder(article)
    IN  IF ids = <<>>
        THEN [out |-> AnchorsInDomOrder(article),
              tried |-> <<"_resource_ids_in_dom_order", "_anchors_in_dom_order">>]
        ELSE [out |-> ids, tried |-> <<"_resource_ids_in_dom_order">>]

\* extract_book_links_from_blog
ExtractBookLinksFromBlog(article) ==
    LET ids == BlogIds(article).out
    IN  [i \in 1..Len(ids) |-> ShowLink(ids[i])]

-----------------------------------------------------------------------------
(* Values the inputs are drawn from *)

Id42 == <<"4", "2">>
Id7  == <<"7">>

CoverSrc == <<"books", "1.jpg">>
OtherSrc == <<"img", "logo.png">>

\* Three spellings of two books: /book/show/42, http://goodreads.com/book/details/42?x
\* and /book/show/7-slug.
CoreHrefs ==
    { Rel("show", Id42, ""),
      Href("http", "goodreads.com", FALSE, "details", Id42, "query"),
      Rel("show", Id7, "slug") }

\* What a card shows: an img alt only; an anchor title with an author and a
\* cover; nothing that gives a title.
CoreProfiles ==
    { [alt |-> T("A"), atitle |-> Empty, author |-> Empty, src |-> Empty],
      [alt |-> Empty, atitle |-> <<"B", " ">>, author |-> T("b"), src |-> CoverSrc],
      [alt |-> Empty, atitle |-> Empty, author |-> Empty, src |-> Empty] }

CoreCards ==
    { Element(cls, h, p.alt, p.atitle, Empty, Empty, p.author, p.src, NoAttr) :
        cls \in {"tooltip", "generic"}, h \in CoreHrefs, p \in CoreProfiles }

\* Nodes of a blog article: a data-resource-id and/or an anchor.
BlogNodes ==
    { Element("generic", h, Empty, Empty, Empty, Empty, Empty, Empty, r) :
        h \in { NoHref, Rel("show", Id42, ""), Rel("details", Id7, "slug"),
                Href("https", "www.goodreads.com", FALSE, "show", Id7, "") },
        r \in { NoAttr, Id42, Id7, <<"x", "7">> } }

\* Single cards over every field, for the skip rules and the field fallbacks.
SingleHrefs ==
    { NoHref, Rel("show", Id42, ""), Rel("photo", Id42, ""), Rel("show", Empty, ""),
      Href("", "", TRUE, "show", Id42, "frag"),
      Href("https", "example.com", FALSE, "show", Id42, "") }

SingleCards ==
    { Element(cls, h, alt, atitle, atext, em, author, src, r) :
        cls \in {"tooltip", "generic"}, h \in SingleHrefs,
        alt \in {Empty, T(" "), T("A")}, atitle \in {Empty, T(" "), T("B")},
        atext \in {Empty, T("a")}, em \in {Empty, T("b")},
        author \in {Empty, <<" ", "b">>}, src \in {Empty, CoverSrc, OtherSrc},
        r \in {NoAttr, Empty} }

Pages ==
    SeqsUpTo(CoreCards, MaxCards) \cup SeqsUpTo(BlogNodes, MaxCards)
        \cup { <<c>> : c \in SingleCards }

-----------------------------------------------------------------------------
(* Specification of the extraction functions: a page is drawn, one of the     *)
(* functions is applied to it.                                                *)

NoCall == [none |-> TRUE]

ExtractIdle == html = <<>> /\ fn = "none" /\ ret = <<>> /\ tried = <<>>
WebIdle     == web = <<>>
EnrichIdle  == ebooks0 = <<>> /\ eargs = NoCall /\ ebooks = <<>> /\ eret = NoCall
ScrapeIdle  == cfg = <<>> /\ run = NoCall
MainIdle    == sources = <<>> /\ mrun = NoCall
DedupeIdle  == achs = <<>> /\ dd = NoCall

InitExtract ==
    /\ html \in Pages
    /\ fn = "none"
    /\ ret = <<>>
    /\ tried = <<>>
    /\ WebIdle /\ EnrichIdle /\ ScrapeIdle /\ MainIdle /\ DedupeIdle

Apply(name, result) ==
    /\ fn = "none"
    /\ fn' = name
    /\ ret' = result
    /\ tried' = <<name>>
    /\ UNCHANGED <<html, web, enrichVars, scrapeVars, mainVars, dedupeVars>>

\* a call of a two-strategy chain: r = [out, tried]
ApplyChain(name, r) ==
    /\ fn = "none"
    /\ fn' = name
    /\ ret' = r.out
    /\ tried' = r.tried
    /\ UNCHANGED <<html, web, enrichVars, scrapeVars, mainVars, dedupeVars>>

CallExtractTooltipTriggers == Apply("_extract_tooltip_triggers", ExtractTooltipTriggers(html, BaseUrl))
CallExtractGenericScoped   == Apply("_extract_generic_scoped", ExtractGenericScoped(html, BaseUrl))
CallScrapePass1            == ApplyChain("scrape_pass1", Pass1(html, BaseUrl))
CallResourceIdsInDomOrder  == Apply("_resource_ids_in_dom_order", ResourceIdsInDomOrder(html))
CallAnchorsInDomOrder      == Apply("_anchors_in_dom_order", AnchorsInDomOrder(html))
CallExtractBookLinksFromBlog ==
    ApplyChain("extract_book_links_from_blog",
               [out |-> ExtractBookLinksFromBlog(html), tried |-> BlogIds(html).tried])

\* the canonicalizer on every book anchor of the page, as the card loops call it
NormalizeAll(page, base) ==
    LET anchors == SelectSeq(page, HasAnchor)
    IN  [i \in 1..Len(anchors) |-> NormalizeBookLink(anchors[i].href, base)]

CallNormalizeBookLink == Apply("_normalize_book_link", NormalizeAll(html, BaseUrl))

NextExtract ==
    \/ CallExtractTooltipTriggers
    \/ CallExtractGenericScoped
    \/ CallScrapePass1
    \/ CallResourceIdsInDomOrder
    \/ CallAnchorsInDomOrder
    \/ CallExtractBookLinksFromBlog
    \/ CallNormalizeBookLink

SpecExtract == InitExtract /\ [][NextExtract]_vars

-----------------------------------------------------------------------------
(* Properties of the extraction functions *)

CardFns == {"_extract_tooltip_triggers", "_extract_generic_scoped", "scrape_pass1"}
IdFns   == {"_resource_ids_in_dom_order", "_anchors_in_dom_order"}

NoDup(s) == \A i, j \in 1..Len(s) : s[i] = s[j] => i = j

IdsOf(recs) == [i \in 1..Len(recs) |-> recs[i].gr_id]

MinOf(S) == CHOOSE k \in S : \A m \in S : k <= m

\* the positions, in the card list, of the cards that give a record with this id
YieldPos(Card(_, _), cards, id) ==
    { k \in 1..Len(cards) :
        Card(cards[k], BaseUrl) # <<>> /\ Card(cards[k], BaseUrl)[1].gr_id = id }

\* the positions of the nodes / anchors that carry this id
ResidPos(nodes, id) == { k \in 1..Len(nodes) : nodes[k].resid = id }
AnchorPos(anchors, id) ==
    { k \in 1..Len(anchors) : BOOK_HREF(anchors[k].href) /\ anchors[k].href.id = id }

\* i precedes j in the output exactly when id i is first yielded before id j
InFirstYieldOrder(n, P(_)) ==
    \A i, j \in 1..n :
        /\ P(i) # {}
        /\ P(j) # {}
        /\ (i < j) <=> (MinOf(P(i)) < MinOf(P(j)))

CardsInOrder(Card(_, _), cards, out) ==
    LET P(i) == YieldPos(Card, cards, out[i].gr_id)
    IN  InFirstYieldOrder(Len(out), P)

\* every output record is, field for field, the record of the first card that
\* yields its id, and is the only record with that id
KeepsFirstCard(Card(_, _), cards, out) ==
    \A i \in 1..Len(out) :
        LET P == YieldPos(Card, cards, out[i].gr_id)
        IN  /\ P # {}
            /\ out[i] = Card(cards[MinOf(P)], BaseUrl)[1]
            /\ \A j \in 1..Len(out) : out[j].gr_id = out[i].gr_id => j = i

\* C1: whatever the page, no extraction function returns two records (ids,
\* links) with the same book id.
C1_UniqueIds ==
    /\ fn \in CardFns => NoDup(IdsOf(ret))
    /\ fn \in IdFns => NoDup(ret)
    /\ fn = "extract_book_links_from_blog" => NoDup([i \in 1..Len(ret) |-> ret[i].id])

\* two cards of the page give a record with the same id, and the card
\* strategy has returned
C1_Witness ==
    /\ fn = "_extract_tooltip_triggers"
    /\ \E i, j \in 1..Len(TooltipCards(html)) :
        /\ i < j
        /\ TooltipCard(TooltipCards(html)[i], BaseUrl) # <<>>
        /\ TooltipCard(TooltipCards(html)[j], BaseUrl) # <<>>
        /\ TooltipCard(TooltipCards(html)[i], BaseUrl)[1].gr_id
             = TooltipCard(TooltipCards(html)[j], BaseUrl)[1].gr_id
    /\ Len(ret) = 1

\* C2: the output is in document order of first occurrence: one record (id)
\* precedes another exactly when the first card (node, anchor) yielding its id
\* comes before the first one yielding the other's.
C2_FirstOccurrenceOrder ==
    /\ fn = "_extract_tooltip_triggers" => CardsInOrder(TooltipCard, TooltipCards(html), ret)
    /\ fn = "_extract_generic_scoped" => CardsInOrder(GenericCard, GenericCards(html), ret)
    /\ fn = "_resource_ids_in_dom_order" =>
        LET P(i) == ResidPos(SelectSeq(html, HasResid), ret[i])
        IN  InFirstYieldOrder(Len(ret), P)
    /\ fn = "_anchors_in_dom_order" =>
        LET P(i) == AnchorPos(SelectSeq(html, HasAnchor), ret[i])
        IN  InFirstYieldOrder(Len(ret), P)

\* the card strategy returned two records, and a card of the later record's
\* id stands in the markup before the first card of the earlier one's but
\* gives no record (it has no title)
C2_Witness ==
    /\ fn = "_extract_tooltip_triggers"
    /\ Len(ret) = 2
    /\ Len(html) = 3
    /\ TooltipCard(html[1], BaseUrl) = <<>>
    /\ html[1].cls = "tooltip"
    /\ BookIdFromHref(NormalizeBookLink(html[1].href, BaseUrl)) = ret[2].gr_id
    /\ TooltipCard(html[2], BaseUrl) = <<ret[1]>>
    /\ TooltipCard(html[3], BaseUrl) = <<ret[2]>>

\* C3: of several cards with one id, the record that survives carries the
\* title, author, link and cover of the first of them, and it is the only one.
C3_FirstCardWins ==
    /\ fn = "_extract_tooltip_triggers" => KeepsFirstCard(TooltipCard, TooltipCards(html), ret)
    /\ fn = "_extract_generic_scoped" => KeepsFirstCard(GenericCard, GenericCards(html), ret)

\* two cards with id 42, the first titled "A", the second "B" with an author,
\* a cover and another link: one record, titled "A", came back
C3_Witness ==
    /\ fn = "_extract_tooltip_triggers"
    /\ Len(html) = 2
    /\ TooltipCard(html[1], BaseUrl) # <<>>
    /\ TooltipCard(html[2], BaseUrl) # <<>>
    /\ TooltipCard(html[1], BaseUrl)[1].gr_id = Id42
    /\ TooltipCard(html[2], BaseUrl)[1].gr_id = Id42
    /\ TooltipCard(html[1], BaseUrl)[1].title = T("A")
    /\ TooltipCard(html[2], BaseUrl)[1].title = T("B")
    /\ TooltipCard(html[1], BaseUrl)[1].link # TooltipCard(html[2], BaseUrl)[1].link
    /\ TooltipCard(html[1], BaseUrl)[1].author # TooltipCard(html[2], BaseUrl)[1].author
    /\ TooltipCard(html[1], BaseUrl)[1].cover # TooltipCard(html[2], BaseUrl)[1].cover
    /\ Len(ret) = 1
    /\ ret[1].title = T("A")

-----------------------------------------------------------------------------
(* Detail pages and enrichment (scraper_prev.py, pass 2) *)

\* What a fetch of a book page gives: ok = FALSE when http_get_text raises.
\* og is the og:title content cut at each " by "; in a part, "|" followed by
\* "G" stands for "| Goodreads".  h1, anode, img are the texts of the title
\* heading, of the first author node and the src of the cover img.
DetailPage(ok, og, og_image, h1, anode, img) ==
    [ok |-> ok, og |-> og, og_image |-> og_image, h1 |-> h1, anode |-> anode, img |-> img]

\* s.split("|")[0]
RECURSIVE BeforeBar(_)
BeforeBar(s) ==
    IF s = Empty \/ Head(s) = "|" THEN Empty ELSE <<Head(s)>> \o BeforeBar(Tail(s))

\* s.replace("| Goodreads", "")
RECURSIVE ReplaceGoodreads(_)
ReplaceGoodreads(s) ==
    IF s = Empty THEN Empty
    ELSE IF Len(s) >= 2 /\ s[1] = "|" /\ s[2] = "G" THEN ReplaceGoodreads(Tail(Tail(s)))
    ELSE <<Head(s)>> \o ReplaceGoodreads(Tail(s))

\* the link of a record, as the URL a detail fetch is keyed on
Info(title, author, cover, link) ==
    [title |-> title, author |-> author, cover |-> cover, link |-> link]

\* _scrape_book_page (and scrape_book_page of scraper.py)
ScrapeBookPage(page, book_url) ==
    IF ~page.ok THEN Info(Empty, Empty, Empty, book_url)
    ELSE LET og_title == page.og # <<>>
             two      == og_title /\ Len(page.og) >= 2
             title0   == IF two THEN Strip(page.og[1])
                         ELSE IF og_title THEN Strip(ReplaceGoodreads(page.og[1]))
                         ELSE Empty
             author0  == IF two THEN Strip(BeforeBar(page.og[2])) ELSE Empty
             title    == IF title0 = Empty THEN Strip(page.h1) ELSE title0
             author   == IF author0 = Empty THEN Strip(page.anode) ELSE author0
             cover    == Or(Strip(page.og_image), page.img)
         IN  Info(title, author, cover, book_url)

\* Mutant of Need: every record is visited.
NeedAlways(b) == TRUE

\* need = not b.get("author")
Need(b) == b.author = Empty

\* Mutant of Prefer: the fetched value is stored even when it is empty.
PreferFetched(old, new) == new

\* `if info.get(f): b[f] = info[f]`
Prefer(old, new) == IF new # Empty THEN new ELSE old

\* the three assignments of the loop body
Enriched(b, info) ==
    [b EXCEPT !.title = Prefer(b.title, info.title),
              !.author = Prefer(b.author, info.author),
              !.cover = Prefer(b.cover, info.cover)]

Fetch(link) == [ev |-> "fetch", link |-> link]
Sleep(ms)   == [ev |-> "sleep", ms |-> ms]

Max(a, b) == IF a >= b THEN a ELSE b

\* the page the site serves for a link
PageOf(w, link) == w[link.id]

\* Mutant of CapReached: the loop stops one visit late.
CapReachedLate(count, cap) == count > cap

\* `if count >= cap: break`
CapReached(count, cap) == count >= cap

\* enrich_books, from record i on: st = [books, filled, count, log]
RECURSIVE EnrichLoop(_, _, _, _, _)
EnrichLoop(st, i, w, cap, delay) ==
    IF i > Len(st.books) THEN st
    ELSE IF CapReached(st.count, cap) THEN st
    ELSE IF ~Need(st.books[i]) THEN EnrichLoop(st, i + 1, w, cap, delay)
    ELSE LET b    == st.books[i]
             info == ScrapeBookPage(PageOf(w, b.link), b.link)
         IN  EnrichLoop(
                 [books  |-> [st.books EXCEPT ![i] = Enriched(b, info)],
                  filled |-> st.filled + (IF info.author # Empty THEN 1 ELSE 0),
                  count  |-> st.count + 1,
                  log    |-> st.log \o <<Fetch(b.link), Sleep(Max(0, delay))>>],
                 i + 1, w, cap, delay)

\* enrich_books(session, books, respect_delay_ms, cap, verbose)
EnrichBooks(books, w, cap, delay) ==
    EnrichLoop([books |-> books, filled |-> 0, count |-> 0, log |-> <<>>], 1, w, cap, delay)

-----------------------------------------------------------------------------
(* Values for enrichment *)

Id5 == <<"5">>

PageFail       == DetailPage(FALSE, <<>>, Empty, Empty, Empty, Empty)
\* og:title "D by F | Goodreads", an og:image
PageFull       == DetailPage(TRUE, <<T("D"), <<"F", " ", "|", "G">>>>, T("og.jpg"), T("d"), T("f"), T("c.jpg"))
\* no metadata, no heading: an author node only
PageAuthorOnly == DetailPage(TRUE, <<>>, Empty, Empty, <<"f", " ">>, Empty)
\* og:title "D | Goodreads", a cover img
PageTitleOnly  == DetailPage(TRUE, <<<<"D", " ", "|", "G">>>>, Empty, Empty, Empty, T("c.jpg"))
\* a page with none of the fields
PageBlank      == DetailPage(TRUE, <<>>, Empty, Empty, Empty, Empty)

DetailPages == {PageFail, PageFull, PageAuthorOnly, PageTitleOnly, PageBlank}

EnrichIds == {Id42, Id7, Id5}

\* enrich.respect_delay_ms as load_config defaults it
DefaultEnrichDelay == 450

\* records as extraction leaves them: a title, a canonical link, perhaps an
\* author and a cover
ExtractedRecords ==
    { BookRecord(T("A"), author, ShowLink(id), cover, id) :
        author \in {Empty, T("b")}, cover \in {Empty, CoverSrc}, id \in EnrichIds }

BookLists == { l \in SeqsUpTo(ExtractedRecords, MaxBooks) : NoDup(IdsOf(l)) }

-----------------------------------------------------------------------------
(* Specification of enrich_books: a record list, a cap, a delay and the site  *)
(* are drawn; the function is applied.                                        *)

InitEnrich ==
    /\ ebooks0 \in BookLists
    /\ eargs \in [cap : 0..MaxCap, respect_delay_ms : {0, DefaultEnrichDelay}]
    /\ web \in [EnrichIds -> DetailPages]
    /\ ebooks = ebooks0
    /\ eret = NoCall
    /\ ExtractIdle /\ ScrapeIdle /\ MainIdle /\ DedupeIdle

CallEnrichBooks ==
    /\ eret = NoCall
    /\ LET r == EnrichBooks(ebooks0, web, eargs.cap, eargs.respect_delay_ms)
       IN  /\ ebooks' = r.books
           /\ eret' = [filled |-> r.filled, count |-> r.count, log |-> r.log]
    /\ UNCHANGED <<ebooks0, eargs, web, extractVars, scrapeVars, mainVars, dedupeVars>>

NextEnrich == CallEnrichBooks

SpecEnrich == InitEnrich /\ [][NextEnrich]_vars

\* C4: a record whose author is non-empty when passed to enrich_books has the
\* same author when it returns, whatever the pages give and whatever the cap.
C4_AuthorKept ==
    eret # NoCall =>
        /\ Len(ebooks) = Len(ebooks0)
        /\ \A i \in 1..Len(ebooks0) :
              ebooks0[i].author # Empty => ebooks[i].author = ebooks0[i].author

\* a record with an author, whose page would give another author, was passed
\* with a cap that reaches it, after a record that was fetched
C4_Witness ==
    /\ eret # NoCall
    /\ Len(ebooks0) = 2
    /\ ebooks0[2].author = T("b")
    /\ ScrapeBookPage(PageOf(web, ebooks0[2].link), ebooks0[2].link).author = T("F")
    /\ eret.count = 1
    /\ eargs.cap = 2
    /\ ebooks[2].author = T("b")

\* C5: a title, author or cover that is non-empty before enrichment is
\* non-empty after it, also when the fetch fails or the page gives an empty
\* value for the field.
C5_NoFieldEmptied ==
    eret # NoCall =>
        \A i \in 1..Len(ebooks0) :
            /\ ebooks0[i].title # Empty => ebooks[i].title # Empty
            /\ ebooks0[i].author # Empty => ebooks[i].author # Empty
            /\ ebooks0[i].cover # Empty => ebooks[i].cover # Empty

\* a titled record with a cover and no author was enriched from a page giving
\* only an author: title and cover as before, the author gained; and a record
\* whose fetch failed is as before
C5_Witness ==
    /\ eret # NoCall
    /\ Len(ebooks0) = 2
    /\ ebooks0[1].author = Empty /\ ebooks0[1].cover # Empty
    /\ PageOf(web, ebooks0[1].link) = PageAuthorOnly
    /\ ebooks[1] = [ebooks0[1] EXCEPT !.author = T("f")]
    /\ ebooks0[2].author = Empty
    /\ PageOf(web, ebooks0[2].link) = PageFail
    /\ eret.count = 2
    /\ ebooks[2] = ebooks0[2]

-----------------------------------------------------------------------------
(* The duplicate maps (scraper_prev.py) and the season compiler *)

\* norm(s) of the compiler; `.strip().lower()` of build_duplicates_maps
Norm(s) == Lower(Strip(s))

\* one achievement result, as scrape() appends it and as a file holds it;
\* book_count is <<n>>, or <<>> when the key is absent
Achievement(name, source_url, book_count, books) ==
    [name |-> name, source_url |-> source_url, book_count |-> book_count, books |-> books]

\* the (achievement name, book) pairs in the order the nested loops visit them
RECURSIVE Mentions(_)
Mentions(achievements) ==
    IF achievements = <<>> THEN <<>>
    ELSE LET a == Head(achievements)
         IN  [i \in 1..Len(a.books) |-> [nm |-> a.name, b |-> a.books[i]]]
                 \o Mentions(Tail(achievements))

KeyPos(index, key) == { i \in 1..Len(index) : index[i].key = key }

\* rec = d.setdefault(key, fresh); rec["achievements"].add(nm)
SetDefaultAdd(index, key, fresh, nm) ==
    IF KeyPos(index, key) = {}
    THEN Append(index, [fresh EXCEPT !.achievements = {nm}])
    ELSE [i \in 1..Len(index) |->
            IF index[i].key = key
            THEN [index[i] EXCEPT !.achievements = @ \cup {nm}]
            ELSE index[i]]

\* the first loop of build_duplicates_maps, by (title, author)
RECURSIVE ByTitleAuthor(_, _)
ByTitleAuthor(ms, index) ==
    IF ms = <<>> THEN index
    ELSE LET b      == Head(ms).b
             key_ta == <<Norm(b.title), Norm(b.author)>>
         IN  ByTitleAuthor(Tail(ms),
                 IF key_ta[1] # Empty
                 THEN SetDefaultAdd(index, key_ta,
                          [key |-> key_ta, title |-> b.title, author |-> b.author,
                           achievements |-> {}], Head(ms).nm)
                 ELSE index)

\* the first loop of build_duplicates_maps, by id
RECURSIVE ById(_, _)
ById(ms, index) ==
    IF ms = <<>> THEN index
    ELSE LET b   == Head(ms).b
             gid == Strip(b.gr_id)
         IN  ById(Tail(ms),
                 IF gid # Empty
                 THEN SetDefaultAdd(index, gid,
                          [key |-> gid, title |-> b.title, author |-> b.author,
                           achievements |-> {}], Head(ms).nm)
                 ELSE index)

\* sorted(names): ascending, by code points
RECURSIVE Sorted(_)
Sorted(S) ==
    IF S = {} THEN <<>>
    ELSE LET lo == CHOOSE x \in S : \A y \in S : TextLeq(x, y)
         IN  <<lo>> \o Sorted(S \ {lo})

\* the sort key (d["title"].lower(), d["author"].lower()), compared as tuples
SortKeyLeq(d, e) ==
    LET dt == Lower(d.title)
        et == Lower(e.title)
    IN  IF dt # et THEN TextLeq(dt, et) ELSE TextLeq(Lower(d.author), Lower(e.author))

\* list.sort(key=...) is stable: an entry goes behind those not greater than it
RECURSIVE SortInsert(_, _)
SortInsert(sorted, d) ==
    IF sorted = <<>> THEN <<d>>
    ELSE IF SortKeyLeq(Head(sorted), d) THEN <<Head(sorted)>> \o SortInsert(Tail(sorted), d)
    ELSE <<d>> \o sorted

RECURSIVE SortByTitleAuthor(_)
SortByTitleAuthor(ds) ==
    IF ds = <<>> THEN <<>>
    ELSE SortInsert(SortByTitleAuthor(SubSeq(ds, 1, Len(ds) - 1)), ds[Len(ds)])

\* Mutant of IsDuplicate: an entry is emitted for any non-empty set.
IsDuplicateOfOne(rec) == Cardinality(rec.achievements) >= 1

\* len(rec["achievements"]) > 1
IsDuplicate(rec) == Cardinality(rec.achievements) > 1

\* build_duplicates_maps
BuildDuplicatesMaps(achievements) ==
    LET by_title_author == ByTitleAuthor(Mentions(achievements), <<>>)
        by_id           == ById(Mentions(achievements), <<>>)
        ta  == SelectSeq(by_title_author, IsDuplicate)
        ids == SelectSeq(by_id, IsDuplicate)
        dupes_ta == [i \in 1..Len(ta) |->
                        [title |-> ta[i].title, author |-> ta[i].author,
                         achievements |-> Sorted(ta[i].achievements)]]
        dupes_id == [i \in 1..Len(ids) |->
                        [gr_id |-> ids[i].key, title |-> ids[i].title, author |-> ids[i].author,
                         achievements |-> Sorted(ids[i].achievements)]]
    IN  [duplicates_by_title_author |-> SortByTitleAuthor(dupes_ta),
         duplicates_by_book_id |-> SortByTitleAuthor(dupes_id)]

\* the loop of build_dedupe_index: index[k] is made on first sight, the
\* achievement's name appended when it is not in the list yet
RECURSIVE DedupeIndex(_, _)
DedupeIndex(ms, index) ==
    IF ms = <<>> THEN index
    ELSE LET b == Head(ms).b
             k == <<Norm(b.title), Norm(b.author)>>
             aname == Head(ms).nm
             made == IF KeyPos(index, k) = {}
                     THEN Append(index, [key |-> k, title |-> Strip(b.title),
                                         author |-> Strip(b.author), achievements |-> <<>>])
                     ELSE index
         IN  DedupeIndex(Tail(ms),
                 [i \in 1..Len(made) |->
                     IF made[i].key = k /\ ~InSeq(aname, made[i].achievements)
                     THEN [made[i] EXCEPT !.achievements = Append(@, aname)]
                     ELSE made[i]])

ListedTwice(v) == Len(v.achievements) > 1

\* build_dedupe_index
BuildDedupeIndex(achievements) ==
    LET vs == SelectSeq(DedupeIndex(Mentions(achievements), <<>>), ListedTwice)
    IN  [i \in 1..Len(vs) |->
            [title |-> vs[i].title, author |-> vs[i].author, achievements |-> vs[i].achievements]]

\* to_season_json
ToSeasonJson(achievements) ==
    [achievements |->
        [i \in 1..Len(achievements) |->
            LET a == achievements[i]
            IN  [name |-> a.name,
                 source_url |-> a.source_url,
                 book_count |-> IF a.book_count # <<>> THEN a.book_count[1] ELSE Len(a.books),
                 books |-> [j \in 1..Len(a.books) |->
                              [title |-> Strip(a.books[j].title),
                               author |-> Strip(a.books[j].author),
                               link |-> a.books[j].link,
                               cover |-> a.books[j].cover]]]],
     dedupe |-> [duplicates_by_title_author |-> BuildDedupeIndex(achievements)]]

-----------------------------------------------------------------------------
(* Values for the duplicate maps *)

\* Book mentions: "A"/b #7; "a "/b #7 (the same pair, spelled otherwise);
\* "B"/b #7 (the same id, another title); "A"/b #42 (the same pair, another
\* id); a blank title without id; a title without author or id.
DedupeBooks ==
    { BookRecord(T("A"), T("b"), ShowLink(Id7), Empty, Id7),
      BookRecord(<<"a", " ">>, T("b"), ShowLink(Id7), Empty, Id7),
      BookRecord(T("B"), T("b"), ShowLink(Id7), Empty, Id7),
      BookRecord(T("A"), T("b"), ShowLink(Id42), Empty, Id42),
      BookRecord(T(" "), T("b"), ShowLink(Id5), Empty, Empty),
      BookRecord(T("B"), Empty, ShowLink(Id5), Empty, Empty) }

DedupeNames == <<T("A"), T("B")>>

\* which achievements list a mention: the first, the second, both
Listings == { {1}, {2}, {1, 2} }

ListedBy(k, item) == k \in item.by

\* the achievement results a sequence of mentions stands for; with `stale`
\* the first one's stored book_count is one more than it has books
Collection(items, stale) ==
    [k \in 1..Len(DedupeNames) |->
        LET mine  == SelectSeq(items, LAMBDA it : ListedBy(k, it))
            books == [i \in 1..Len(mine) |-> mine[i].b]
        IN  Achievement(DedupeNames[k], T("u"),
                        IF stale /\ k = 1 THEN <<Len(books) + 1>> ELSE <<Len(books)>>,
                        books)]

Collections ==
    { Collection(items, stale) :
        items \in SeqsUpTo([b : DedupeBooks, by : Listings], MaxMentions),
        stale \in BOOLEAN }

-----------------------------------------------------------------------------
(* Specification of the duplicate maps: a collection of achievement results   *)
(* is drawn; build_duplicates_maps or to_season_json is applied.              *)

InitDedupe ==
    /\ achs \in Collections
    /\ dd = NoCall
    /\ ExtractIdle /\ WebIdle /\ EnrichIdle /\ ScrapeIdle /\ MainIdle

CallBuildDuplicatesMaps ==
    /\ dd = NoCall
    /\ dd' = [fn |-> "build_duplicates_maps", out |-> BuildDuplicatesMaps(achs)]
    /\ UNCHANGED <<achs, web, extractVars, enrichVars, scrapeVars, mainVars>>

CallToSeasonJson ==
    /\ dd = NoCall
    /\ dd' = [fn |-> "to_season_json", out |-> ToSeasonJson(achs)]
    /\ UNCHANGED <<achs, web, extractVars, enrichVars, scrapeVars, mainVars>>

NextDedupe == CallBuildDuplicatesMaps \/ CallToSeasonJson

SpecDedupe == InitDedupe /\ [][NextDedupe]_vars

-----------------------------------------------------------------------------
(* Properties of the duplicate maps *)

Range(seq) == { seq[i] : i \in 1..Len(seq) }

\* the names of the achievements with a book of this normalized pair / this id
NamesOfPair(key) ==
    { achs[k].name : k \in { k \in 1..Len(achs) :
        \E j \in 1..Len(achs[k].books) :
            <<Norm(achs[k].books[j].title), Norm(achs[k].books[j].author)>> = key } }

NamesOfId(id) ==
    { achs[k].name : k \in { k \in 1..Len(achs) :
        \E j \in 1..Len(achs[k].books) : Strip(achs[k].books[j].gr_id) = id } }

PairOf(e) == <<Norm(e.title), Norm(e.author)>>

\* the ids the collection's books carry
IdsMentioned ==
    UNION { { Strip(achs[k].books[j].gr_id) : j \in 1..Len(achs[k].books) } : k \in 1..Len(achs) }

\* the two maps of the artifact built; a map the artifact lacks has no entry
TitleAuthorMap ==
    IF dd.fn = "to_season_json" THEN dd.out.dedupe.duplicates_by_title_author
    ELSE dd.out.duplicates_by_title_author

HasByIdMap == dd # NoCall /\ dd.fn = "build_duplicates_maps"

ByIdMap == IF HasByIdMap THEN dd.out.duplicates_by_book_id ELSE <<>>

\* C9: every entry of either duplicate map lists at least 2 distinct
\* achievement names, and there is no entry for a normalized (title, author)
\* pair or an id that exactly one achievement references.
C9_DuplicateMapsSound ==
    dd # NoCall =>
        /\ \A e \in Range(TitleAuthorMap) :
              /\ Cardinality(Range(e.achievements)) >= 2
              /\ Cardinality(NamesOfPair(PairOf(e))) # 1
        /\ \A e \in Range(ByIdMap) :
              /\ Cardinality(Range(e.achievements)) >= 2
              /\ Cardinality(NamesOfId(e.gr_id)) # 1

\* build_duplicates_maps ran on a collection in which achievement A lists one
\* pair and id twice and nobody else does, and both list another pair and id
C9_Witness ==
    /\ dd # NoCall
    /\ dd.fn = "build_duplicates_maps"
    /\ Len(achs[1].books) = 3
    /\ achs[1].books[1] = achs[1].books[2]
    /\ achs[1].books[1].gr_id = Id42
    /\ NamesOfId(Id42) = {T("A")}
    /\ NamesOfPair(<<T("a"), T("b")>>) = {T("A")}
    /\ NamesOfId(Id7) = {T("A"), T("B")}
    /\ Len(TitleAuthorMap) = 1
    /\ Len(ByIdMap) = 1
    /\ ByIdMap[1].gr_id = Id7

\* C10: for every id that records of two or more achievements carry, the
\* artifact's by-id map has exactly one entry, and it lists exactly those
\* achievements, whatever the records' titles and authors.
C10_ByIdEntry ==
    dd # NoCall =>
        \A id \in { x \in IdsMentioned : x # Empty /\ Cardinality(NamesOfId(x)) >= 2 } :
            /\ Cardinality({ i \in 1..Len(ByIdMap) : ByIdMap[i].gr_id = id }) = 1
            /\ \A e \in Range(ByIdMap) : e.gr_id = id => Range(e.achievements) = NamesOfId(id)

\* the same, of the artifact scrape() assembles with build_duplicates_maps
C10_ByIdEntryOfScrape == HasByIdMap => C10_ByIdEntry

\* id 7 titled "A" in one achievement and "B" in the other: one by-id entry
\* naming both, no title/author entry
C10_ScrapeWitness ==
    /\ dd # NoCall
    /\ HasByIdMap
    /\ Len(achs[1].books) = 1 /\ Len(achs[2].books) = 1
    /\ achs[1].books[1].gr_id = Id7 /\ achs[1].books[1].title = T("A")
    /\ achs[2].books[1].gr_id = Id7 /\ achs[2].books[1].title = T("B")
    /\ Len(ByIdMap) = 1
    /\ ByIdMap[1].achievements = <<T("A"), T("B")>>
    /\ TitleAuthorMap = <<>>

-----------------------------------------------------------------------------
(* scraper.py: main() *)

\* `if i % 5 == 0: time.sleep(0.6)`
SleepEvery == 5
SleepMs    == 600

\* what get(url) gives for an achievement's page: ok = FALSE when it raises
SourcePage(ok, page) == [ok |-> ok, html |-> page]

Source(name, url, page) == [name |-> name, url |-> url, page |-> page]

\* safe_slug on a name of letters: stripped and lower-cased
SafeSlug(name) == Lower(Strip(name))

Row(info, name, url) ==
    [Book |-> info.title, Author |-> info.author, Achievement |-> name,
     Source |-> url, Link |-> info.link, Cover |-> info.cover]

\* the loop `for i, burl in enumerate(links, 1)`: st = [rows, log]
RECURSIVE MainRows(_, _, _, _, _, _)
MainRows(links, i, w, name, url, st) ==
    IF i > Len(links) THEN st
    ELSE LET info == ScrapeBookPage(PageOf(w, links[i]), links[i])
             log1 == Append(st.log, Fetch(links[i]))
         IN  IF info.title = Empty \/ info.author = Empty
             THEN MainRows(links, i + 1, w, name, url, [rows |-> st.rows, log |-> log1])
             ELSE MainRows(links, i + 1, w, name, url,
                      [rows |-> Append(st.rows, Row(info, name, url)),
                       log  |-> IF i % SleepEvery = 0 THEN Append(log1, Sleep(SleepMs)) ELSE log1])

\* write_achievement_json: the data written
AchievementJson(name, source_url, book_rows) ==
    [name |-> name,
     source_url |-> source_url,
     book_count |-> Len(book_rows),
     books |-> [j \in 1..Len(book_rows) |->
                  [title |-> book_rows[j].Book, author |-> book_rows[j].Author,
                   link |-> book_rows[j].Link, cover |-> book_rows[j].Cover]]]

\* open(path, "w"): a file of that path is replaced
WriteFile(files, path, data) ==
    IF \E k \in 1..Len(files) : files[k].path = path
    THEN [k \in 1..Len(files) |-> IF files[k].path = path THEN [path |-> path, data |-> data] ELSE files[k]]
    ELSE Append(files, [path |-> path, data |-> data])

\* One pass of `for src in sources`, the try block and its except.
MainSource ==
    /\ mrun # NoCall
    /\ mrun.status = "loop"
    /\ mrun.i <= Len(sources.list)
    /\ LET src == sources.list[mrun.i]
       IN  IF ~src.page.ok
           THEN \* get(url) raised: the except prints the error
                mrun' = [mrun EXCEPT !.i = @ + 1, !.errors = Append(@, src.name)]
           ELSE LET links == ExtractBookLinksFromBlog(src.page.html)
                IN  IF sources.dry_run
                    THEN mrun' = [mrun EXCEPT !.i = @ + 1]
                    ELSE LET r == MainRows(links, 1, web, src.name, src.url,
                                           [rows |-> <<>>, log |-> <<>>])
                         IN  mrun' = [mrun EXCEPT
                                 !.i = @ + 1,
                                 !.rows_all = @ \o r.rows,
                                 !.logs = Append(@, r.log),
                                 !.files = WriteFile(@, SafeSlug(src.name),
                                              AchievementJson(src.name, src.url, r.rows))]
    /\ UNCHANGED <<sources, web, extractVars, enrichVars, scrapeVars, dedupeVars>>

\* After the loop: the dry run returns; else the CSV is written.
MainFinish ==
    /\ mrun # NoCall
    /\ mrun.status = "loop"
    /\ mrun.i > Len(sources.list)
    /\ mrun' = [mrun EXCEPT !.status = "done", !.csv = IF sources.dry_run THEN <<>> ELSE <<mrun.rows_all>>]
    /\ UNCHANGED <<sources, web, extractVars, enrichVars, scrapeVars, dedupeVars>>

-----------------------------------------------------------------------------
(* Values for main() *)

Id1 == <<"1">>
Id2 == <<"2">>

AchNames == <<T("A"), T("B"), <<"A", "B">>, <<"B", "A">>>>

Node(bid)  == Element("generic", NoHref, Empty, Empty, Empty, Empty, Empty, Empty, bid)
Anchor(h)  == Element("generic", h, Empty, Empty, Empty, Empty, Empty, Empty, NoAttr)

\* an article without book ids, one with two resource ids, one with five
\* relative anchors
Articles ==
    { <<>>,
      <<Node(Id42), Node(Id7)>>,
      <<Anchor(Rel("show", Id42, "")), Anchor(Rel("details", Id7, "slug")),
        Anchor(Rel("show", Id5, "")), Anchor(Rel("show", Id1, "query")),
        Anchor(Rel("show", Id2, ""))>> }

MainIds == {Id42, Id7, Id5, Id1, Id2}

SourcePages == {SourcePage(FALSE, <<>>)} \cup { SourcePage(TRUE, a) : a \in Articles }

SourceLists ==
    UNION { { [k \in 1..n |-> Source(AchNames[k], <<"u", AchNames[k]>>, pages[k])] :
                pages \in [1..n -> SourcePages] } : n \in 1..MaxAch }

-----------------------------------------------------------------------------
(* Specification of scraper.py: the selected achievements, the flags and the  *)
(* site are drawn; main() runs its loop and finishes.                         *)

InitMain ==
    /\ sources \in [list : SourceLists, dry_run : BOOLEAN]
    /\ web \in [MainIds -> {PageFail, PageFull, PageAuthorOnly}]
    /\ mrun = [i |-> 1, files |-> <<>>, rows_all |-> <<>>, logs |-> <<>>,
               errors |-> <<>>, status |-> "loop", csv |-> <<>>]
    /\ ExtractIdle /\ EnrichIdle /\ ScrapeIdle /\ DedupeIdle

NextMain == MainSource \/ MainFinish

SpecMain == InitMain /\ [][NextMain]_vars

\* the links extraction gave for the achievement a file was written for
LinksOfFile(f) ==
    LET k == CHOOSE k \in 1..Len(sources.list) : SafeSlug(sources.list[k].name) = f.path
    IN  ExtractBookLinksFromBlog(sources.list[k].page.html)

\* C6: a failed detail fetch, or a detail page without title or author, never
\* removes a record: the record sequence written for an achievement has the
\* records extraction produced, in the same order.
C6_NoRecordDropped ==
    mrun # NoCall =>
        \A k \in 1..Len(mrun.files) :
            [j \in 1..Len(mrun.files[k].data.books) |-> mrun.files[k].data.books[j].link]
                = LinksOfFile(mrun.files[k])

\* the same of enrich_books: it returns the records it was given, each with
\* its id and link
C6_EnrichKeepsRecords ==
    eret # NoCall =>
        /\ Len(ebooks) = Len(ebooks0)
        /\ \A i \in 1..Len(ebooks0) :
              ebooks[i].gr_id = ebooks0[i].gr_id /\ ebooks[i].link = ebooks0[i].link

NoFetchTwiceInARow(log) ==
    \A k \in 1..(Len(log) - 1) : ~(log[k].ev = "fetch" /\ log[k + 1].ev = "fetch")

\* C7: within one achievement, every detail fetch is followed by the spacing
\* delay before the next detail fetch.
C7_FetchesSpaced ==
    /\ mrun # NoCall => \A k \in 1..Len(mrun.logs) : NoFetchTwiceInARow(mrun.logs[k])
    /\ eret # NoCall => NoFetchTwiceInARow(eret.log)

\* the same of enrich_books alone
C7_EnrichFetchesSpaced == eret # NoCall => NoFetchTwiceInARow(eret.log)

-----------------------------------------------------------------------------
(* scraper_prev.py: scrape() *)

\* the defaults of load_config and of scrape()
DefaultCap         == 300
DefaultScrapeDelay == 600
DefaultExpectedMin == 0
DefaultExpectedMax == 1000000000

\* one achievement of the config, with what http_get_text gives for its url
ConfigAchievement(name, url, enabled, lo, hi, page) ==
    [name |-> name, url |-> url, enabled |-> enabled,
     expected_min |-> lo, expected_max |-> hi, page |-> page]

IsEnabled(a) == a.enabled

\* ach_list: the enabled achievements (no --only filter)
AchList(c) == SelectSeq(c.achievements, IsEnabled)

\* Mutant of OutOfBounds: only the upper bound is checked.
OutOfBoundsAbove(n, lo, hi) == n > hi

\* `not (lo <= len(books) <= hi)`
OutOfBounds(n, lo, hi) == ~(lo <= n /\ n <= hi)

\* One pass of `for ach in ach_list`.  The fetch of the achievement's page is
\* outside any try: when it raises, scrape() is left by the exception.
ScrapeAchievement ==
    /\ run # NoCall
    /\ run.status = "loop"
    /\ run.i <= Len(AchList(cfg))
    /\ LET ach == AchList(cfg)[run.i]
       IN  IF ~cfg.dry_run /\ ~ach.page.ok
           THEN run' = [run EXCEPT !.status = "raised"]
           ELSE LET books0 == IF cfg.dry_run THEN <<>> ELSE ScrapePass1(ach.page.html, BaseUrl)
                    r == IF cfg.enrich_authors /\ ~cfg.dry_run
                         THEN EnrichBooks(books0, web, cfg.cap, cfg.enrich_delay)
                         ELSE [books |-> books0, filled |-> 0, count |-> 0, log |-> <<>>]
                    n == Len(r.books)
                IN  run' = [run EXCEPT
                        !.i = @ + 1,
                        !.warn = IF OutOfBounds(n, ach.expected_min, ach.expected_max)
                                 THEN Append(@, ach.name) ELSE @,
                        !.out = Append(@, Achievement(ach.name, ach.url, <<n>>, r.books)),
                        !.logs = Append(@, r.log \o <<Sleep(cfg.delay_ms)>>)]
    /\ UNCHANGED <<cfg, web, extractVars, enrichVars, mainVars, dedupeVars>>

\* After the loop: the artifact is assembled and written.
ScrapeFinish ==
    /\ run # NoCall
    /\ run.status = "loop"
    /\ run.i > Len(AchList(cfg))
    /\ run' = [run EXCEPT
            !.status = "done",
            !.artifact = <<[achievements |-> run.out, dedupe |-> BuildDuplicatesMaps(run.out)]>>]
    /\ UNCHANGED <<cfg, web, extractVars, enrichVars, mainVars, dedupeVars>>

-----------------------------------------------------------------------------
(* Values for scrape() *)

Card(cls, h, alt, atitle, author, src) ==
    Element(cls, h, alt, atitle, Empty, Empty, author, src, NoAttr)

\* an empty page; a page of three cards (two for book 42, one for book 7);
\* a page without cards whose list items give one book
ScrapeHtmls ==
    { <<>>,
      <<Card("tooltip", Rel("show", Id42, ""), T("A"), Empty, Empty, Empty),
        Card("tooltip", Href("http", "goodreads.com", FALSE, "details", Id42, "query"),
             Empty, T("B"), T("b"), CoverSrc),
        Card("tooltip", Rel("show", Id7, "slug"), T("B"), Empty, Empty, Empty)>>,
      <<Card("generic", Rel("details", Id7, ""), Empty, T("A"), T("b"), Empty)>> }

ScrapePages == {SourcePage(FALSE, <<>>)} \cup { SourcePage(TRUE, h) : h \in ScrapeHtmls }

\* expected_min, expected_max: the defaults, 2..50, 0..1
ExpectedBounds == { <<DefaultExpectedMin, DefaultExpectedMax>>, <<2, 50>>, <<0, 1>> }

ConfigLists ==
    UNION { { [k \in 1..n |->
                  ConfigAchievement(AchNames[k], <<"u", AchNames[k]>>, en[k],
                                    bd[k][1], bd[k][2], pages[k])] :
                pages \in [1..n -> ScrapePages], en \in [1..n -> BOOLEAN],
                bd \in [1..n -> ExpectedBounds] } : n \in 1..MaxAch }

-----------------------------------------------------------------------------
(* Specification of scraper_prev.py: a config, the flags and the site are     *)
(* drawn; scrape() runs its loop and assembles the artifact.                  *)

InitScrape ==
    /\ cfg \in [achievements : ConfigLists, dry_run : BOOLEAN, enrich_authors : BOOLEAN,
                cap : {DefaultCap}, enrich_delay : {DefaultEnrichDelay},
                delay_ms : {DefaultScrapeDelay}]
    /\ web \in [{Id42, Id7} -> {PageFail, PageFull, PageAuthorOnly}]
    /\ run = [i |-> 1, out |-> <<>>, warn |-> <<>>, logs |-> <<>>,
              status |-> "loop", artifact |-> <<>>]
    /\ ExtractIdle /\ EnrichIdle /\ MainIdle /\ DedupeIdle

NextScrape == ScrapeAchievement \/ ScrapeFinish

SpecScrape == InitScrape /\ [][NextScrape]_vars

\* C8: a failure to fetch or process one achievement never aborts the run:
\* when the run is over, every enabled achievement after the failing one has
\* been processed and the final artifact has been produced.
C8_FailureDoesNotAbort ==
    /\ (run # NoCall /\ run.status \in {"done", "raised"}) =>
          \A k \in 1..Len(AchList(cfg)) :
              (~cfg.dry_run /\ ~AchList(cfg)[k].page.ok) =>
                  /\ \A j \in (k + 1)..Len(AchList(cfg)) : j < run.i
                  /\ run.artifact # <<>>
    /\ (mrun # NoCall /\ mrun.status = "done") =>
          \A k \in 1..Len(sources.list) :
              ~sources.list[k].page.ok =>
                  /\ \A j \in (k + 1)..Len(sources.list) : j < mrun.i
                  /\ (~sources.dry_run => mrun.csv # <<>>)

\* the same of scraper.py's main() alone, whose loop body is inside a try
C8_MainFailureDoesNotAbort == mrun # NoCall => C8_FailureDoesNotAbort

-----------------------------------------------------------------------------
(* Order of the duplicate maps *)

\* (title.lower(), author.lower()) of e is not greater than that of f
LowerPairLeq(e, f) ==
    \/ Lower(e.title) # Lower(f.title) /\ TextLeq(Lower(e.title), Lower(f.title))
    \/ Lower(e.title) = Lower(f.title) /\ TextLeq(Lower(e.author), Lower(f.author))

AdjacentInOrder(m) == \A i \in 1..(Len(m) - 1) : LowerPairLeq(m[i], m[i + 1])

\* C11: both duplicate maps of the artifact are sorted by the lower-cased
\* (display title, display author): of two adjacent entries, the earlier one's
\* pair is less than or equal to the later one's.
C11_MapsSorted ==
    dd # NoCall => AdjacentInOrder(TitleAuthorMap) /\ AdjacentInOrder(ByIdMap)

\* the same, of the maps build_duplicates_maps returns
C11_ScrapeMapsSorted == HasByIdMap => C11_MapsSorted

\* two pairs listed by both achievements, "B" seen before "A", and an id
\* titled "B" seen before one titled "A": both maps come back "A" first
C11_ScrapeWitness ==
    /\ HasByIdMap
    /\ Len(achs[1].books) = 2
    /\ achs[1].books[1].title = T("B") /\ achs[1].books[1].gr_id = Id7
    /\ achs[1].books[2].title = T("A") /\ achs[1].books[2].gr_id = Id42
    /\ achs[2].books = achs[1].books
    /\ Len(TitleAuthorMap) = 2 /\ TitleAuthorMap[1].title = T("A")
    /\ Len(ByIdMap) = 2 /\ ByIdMap[1].gr_id = Id42

-----------------------------------------------------------------------------
(* The expected-count warning of scrape() *)

\* the records extraction and enrichment give for an achievement of the run
RecordsOf(ach) ==
    IF cfg.dry_run THEN <<>>
    ELSE LET books0 == ScrapePass1(ach.page.html, BaseUrl)
         IN  IF cfg.enrich_authors
             THEN EnrichBooks(books0, web, cfg.cap, cfg.enrich_delay).books
             ELSE books0

CountMismatch(ach) ==
    \/ Len(RecordsOf(ach)) < ach.expected_min
    \/ Len(RecordsOf(ach)) > ach.expected_max

\* C12: an achievement whose record count is outside [expected_min,
\* expected_max] gets a warning naming it and is appended with all its
\* records; the mismatch does not end the loop: every achievement taken up is
\* appended, only a failed page fetch leaves the loop early, and a finished
\* run's artifact holds every enabled achievement.
C12_MismatchWarned ==
    run # NoCall =>
        /\ Len(run.out) = run.i - 1
        /\ \A k \in 1..Len(run.out) :
              LET ach == AchList(cfg)[k]
              IN  CountMismatch(ach) =>
                      /\ InSeq(ach.name, run.warn)
                      /\ run.out[k].name = ach.name
                      /\ run.out[k].books = RecordsOf(ach)
        /\ run.status = "raised" => ~AchList(cfg)[run.i].page.ok
        /\ run.status = "done" =>
              /\ Len(run.out) = Len(AchList(cfg))
              /\ run.artifact # <<>>
              /\ run.artifact[1].achievements = run.out

\* a finished run of two achievements: the first expects 2..50 and gave 1
\* record, the second expects 0..1 and gave 2; both are warned about and both
\* are in the artifact with their records
C12_Witness ==
    /\ run # NoCall
    /\ run.status = "done"
    /\ Len(AchList(cfg)) = 2
    /\ AchList(cfg)[1].expected_min = 2 /\ Len(RecordsOf(AchList(cfg)[1])) = 1
    /\ AchList(cfg)[2].expected_max = 1 /\ Len(RecordsOf(AchList(cfg)[2])) = 2
    /\ run.warn = <<AchList(cfg)[1].name, AchList(cfg)[2].name>>
    /\ Len(run.artifact[1].achievements[1].books) = 1
    /\ Len(run.artifact[1].achievements[2].books) = 2

-----------------------------------------------------------------------------
(* The link canonicalizer *)

\* the book anchors of the page, in the order NormalizeAll takes them
Anchors == SelectSeq(html, HasAnchor)

\* the reference names a book of the site: the card loops accept its link and
\* read an id from it
NamesBook(link) == BOOK_SHOW_ABS_RE(link) /\ BookIdFromHref(link) # Empty

\* C13: two references to the same book id, however spelled (relative or
\* absolute, show or details, with or without query, fragment or slug), are
\* canonicalized to the same link.
C13_SameIdSameLink ==
    fn = "_normalize_book_link" =>
        \A i, j \in 1..Len(ret) :
            (NamesBook(ret[i]) /\ NamesBook(ret[j]) /\ ret[i].id = ret[j].id) => ret[i] = ret[j]

\* the same, of two references that resolve to the same scheme and host
C13_SameOriginSameLink ==
    fn = "_normalize_book_link" =>
        \A i, j \in 1..Len(ret) :
            ( /\ NamesBook(ret[i]) /\ NamesBook(ret[j]) /\ ret[i].id = ret[j].id
              /\ Abs(Anchors[i].href, BaseUrl).scheme = Abs(Anchors[j].href, BaseUrl).scheme
              /\ Abs(Anchors[i].href, BaseUrl).host = Abs(Anchors[j].href, BaseUrl).host )
            => ret[i] = ret[j]

\* a relative details reference with a slug and an absolute show reference
\* with a query, same id, same origin: one link
C13_SameOriginWitness ==
    /\ fn = "_normalize_book_link"
    /\ Len(ret) = 2
    /\ Anchors[1].href = Rel("details", Id7, "slug")
    /\ Anchors[2].href = Href("https", "www.goodreads.com", FALSE, "show", Id7, "")
    /\ ret[1] = ShowLink(Id7)
    /\ ret[2] = ShowLink(Id7)

-----------------------------------------------------------------------------
(* Titles of surviving records *)

AllTitled(books) == \A j \in 1..Len(books) : books[j].title # Empty

EachTitled(achievements) == \A k \in 1..Len(achievements) : AllTitled(achievements[k].books)

\* C14: a record that survives has a non-empty title: the card strategies
\* return no record without one, enrich_books leaves no titled record without
\* one, and every book entry of every achievement of an assembled artifact (of
\* scrape(), of main()'s files, of to_season_json) has one.
C14_TitleNeverEmpty ==
    /\ fn \in CardFns => AllTitled(ret)
    /\ eret # NoCall => (AllTitled(ebooks0) => AllTitled(ebooks))
    /\ run # NoCall => (EachTitled(run.out) /\ (run.artifact # <<>> => EachTitled(run.artifact[1].achievements)))
    /\ mrun # NoCall => \A k \in 1..Len(mrun.files) : AllTitled(mrun.files[k].data.books)
    /\ (dd # NoCall /\ dd.fn = "to_season_json") => EachTitled(dd.out.achievements)

\* the same, of the scrapers alone
C14_ScrapedTitleNeverEmpty == dd = NoCall => C14_TitleNeverEmpty

\* a card whose only title source is blank was passed over, the next card
\* gave the one record
C14_ExtractWitness ==
    /\ fn = "_extract_tooltip_triggers"
    /\ Len(html) = 2
    /\ html[1].cls = "tooltip" /\ html[1].href # NoHref /\ TooltipTitle(html[1]) = Empty
    /\ TooltipCard(html[2], BaseUrl) # <<>>
    /\ Len(ret) = 1
    /\ ret[1].title # Empty

-----------------------------------------------------------------------------
(* The fetches of enrich_books *)

\* the positions of the log's fetches; those of the records without author
FetchPos(log) == { k \in 1..Len(log) : log[k].ev = "fetch" }
NeedPos(books) == { i \in 1..Len(books) : books[i].author = Empty }

Min(a, b) == IF a <= b THEN a ELSE b

\* C15: enrich_books issues at most cap fetches, fetches no link twice, and
\* fetches only links of records that came without author; records skipped for
\* having an author use up none of the cap: the fetches number the records
\* without author, or cap when these are more.
C15_FetchesCapped ==
    eret # NoCall =>
        /\ Cardinality(FetchPos(eret.log)) <= eargs.cap
        /\ \A k, m \in FetchPos(eret.log) : eret.log[k].link = eret.log[m].link => k = m
        /\ \A k \in FetchPos(eret.log) :
              \E i \in NeedPos(ebooks0) : ebooks0[i].link = eret.log[k].link
        /\ Cardinality(FetchPos(eret.log)) = Min(eargs.cap, Cardinality(NeedPos(ebooks0)))
        /\ eret.count = Cardinality(FetchPos(eret.log))

\* cap 1, a record with an author before one without: the one fetch is of
\* the second record's link
C15_Witness ==
    /\ eret # NoCall
    /\ eargs.cap = 1
    /\ Len(ebooks0) = 2
    /\ ebooks0[1].author # Empty
    /\ ebooks0[2].author = Empty
    /\ Cardinality(FetchPos(eret.log)) = 1
    /\ eret.log[1] = Fetch(ebooks0[2].link)

-----------------------------------------------------------------------------
(* The two-strategy chains *)

Links(ids) == [i \in 1..Len(ids) |-> ShowLink(ids[i])]

\* the call ran `primary` first; it ran `fallback`, and returned what that
\* gave, exactly when `primary` gave nothing
ChainOf(primary, fallback, p, f) ==
    /\ p # <<>> => (ret = p /\ tried = <<primary>>)
    /\ p = <<>> => (ret = f /\ tried = <<primary, fallback>>)
    /\ (p = <<>> /\ f = <<>>) => ret = <<>>

\* C16: extraction tries its two strategies in fixed order: a non-empty
\* result of the primary one is returned as it is and the fallback is not
\* called; the fallback is called only when the primary gives nothing, and
\* when both give nothing the result is the empty sequence.
C16_TwoStrategyChain ==
    /\ fn = "scrape_pass1" =>
          ChainOf("_extract_tooltip_triggers", "_extract_generic_scoped",
                  ExtractTooltipTriggers(html, BaseUrl), ExtractGenericScoped(html, BaseUrl))
    /\ fn = "extract_book_links_from_blog" =>
          ChainOf("_resource_ids_in_dom_order", "_anchors_in_dom_order",
                  Links(ResourceIdsInDomOrder(html)), Links(AnchorsInDomOrder(html)))

\* a page on which both card strategies find records, other ones: pass 1
\* returned the primary's and did not call the fallback
C16_Witness ==
    /\ fn = "scrape_pass1"
    /\ ExtractTooltipTriggers(html, BaseUrl) # <<>>
    /\ ExtractGenericScoped(html, BaseUrl) # <<>>
    /\ ExtractGenericScoped(html, BaseUrl) # ExtractTooltipTriggers(html, BaseUrl)
    /\ ret = ExtractTooltipTriggers(html, BaseUrl)
    /\ tried = <<"_extract_tooltip_triggers">>

-----------------------------------------------------------------------------
(* Blank titles and the title/author map *)

\* the achievements with a book whose normalized title is empty
NamesOfBlank ==
    { achs[k].name : k \in { k \in 1..Len(achs) :
        \E j \in 1..Len(achs[k].books) : Norm(achs[k].books[j].title) = Empty } }

\* C17: the title/author duplicate map has no entry whose normalized title
\* is empty, also when records with such a title are in two or more
\* achievements.
C17_NoBlankTitleEntry ==
    dd # NoCall => \A e \in Range(TitleAuthorMap) : Norm(e.title) # Empty

\* the same, of the map build_duplicates_maps returns
C17_ScrapeNoBlankTitleEntry == HasByIdMap => C17_NoBlankTitleEntry

\* both achievements list a record with a blank title and the same author:
\* build_duplicates_maps returned no entry for it
C17_ScrapeWitness ==
    /\ HasByIdMap
    /\ Cardinality(NamesOfBlank) = 2
    /\ Len(achs[1].books) = 1 /\ Len(achs[2].books) = 1
    /\ achs[1].books[1].author = achs[2].books[1].author
    /\ TitleAuthorMap = <<>>

-----------------------------------------------------------------------------
(* book_count *)

\* C18: in every assembled artifact and every per-achievement file, an
\* achievement's book_count is the length of its books sequence.
C18_BookCountDerived ==
    /\ run # NoCall =>
          /\ \A k \in 1..Len(run.out) : run.out[k].book_count = <<Len(run.out[k].books)>>
          /\ run.artifact # <<>> =>
                \A k \in 1..Len(run.artifact[1].achievements) :
                    run.artifact[1].achievements[k].book_count
                        = <<Len(run.artifact[1].achievements[k].books)>>
    /\ mrun # NoCall =>
          \A k \in 1..Len(mrun.files) :
              mrun.files[k].data.book_count = Len(mrun.files[k].data.books)
    /\ (dd # NoCall /\ dd.fn = "to_season_json") =>
          \A k \in 1..Len(dd.out.achievements) :
              dd.out.achievements[k].book_count = Len(dd.out.achievements[k].books)

\* the same, of the two scrapers alone
C18_ScrapedBookCountDerived == dd = NoCall => C18_BookCountDerived

\* main() wrote a file for an achievement of two links of which one row was
\* dropped: book_count 1, one book
C18_MainWitness ==
    /\ mrun # NoCall
    /\ Len(mrun.files) >= 1
    /\ Len(LinksOfFile(mrun.files[1])) = 2
    /\ Len(mrun.files[1].data.books) = 1
    /\ mrun.files[1].data.book_count = 1

====
